---- MODULE Spec2Model ----
(***************************************************************************)
(* Payment-channel node (client/lightning_node.py), the in-process message *)
(* bus (client/network.py), the state-message codec (client/utils.py) and  *)
(* the on-chain arbiter the node talks to.                                 *)
(*                                                                         *)
(* One arbiter contract ("chan") is deployed at most once.  A node's       *)
(* address, network id and signing key are all named by the node.  Every   *)
(* action is one whole call of the public API, including the synchronous   *)
(* chain send -> receive_funds -> ack_transfer that the bus runs inside it.*)
(***************************************************************************)
EXTENDS Integers, Sequences, FiniteSets, TLC

\* ------------------------------------------------------------------ bounds

\* Wallet of every node at start (the harness funds 1000 ether; scaled).
InitialFunds == 2
\* Largest serial number a send may produce or a crafted message may carry.
MaxSerial == 3
\* How many times an inbound handler is invoked directly with a crafted message.
MaxInject == 1

\* ------------------------------------------------------- program constants

APPEAL_PERIOD == 5

Nodes == {"alice", "bob", "charlie"}
Opener == "alice"
Responder == "bob"
Chan == "chan"
NoAddress == "none"

\* Amounts offered to establish_channel and send (negative, zero, too large).
Amounts == (0 - 1) .. (InitialFunds + 1)
\* Balances a crafted state message may carry (sums off the deposit included).
CraftBalances == 0 .. InitialFunds
CraftSerials == 0 .. MaxSerial

\* ------------------------------------------------------------------- codec

\* Signature((0, 0x00.., 0x00..)): the unsigned placeholder.
ZeroSig == [signer |-> NoAddress, h |-> <<NoAddress, 0, 0, 0>>]

ChannelStateMessage(addr, b1, b2, serial, sig) ==
    [contract_address |-> addr, balance1 |-> b1, balance2 |-> b2,
     serial_number |-> serial, sig |-> sig]

\* last_state = None
NoState == ChannelStateMessage(NoAddress, 0, 0, 0, ZeroSig)

\* keccak over (address, balance1, balance2, serial)
message_hash(m) ==
    <<m.contract_address, m.balance1, m.balance2, m.serial_number>>

sign(private_key, m) ==
    ChannelStateMessage(m.contract_address, m.balance1, m.balance2,
                        m.serial_number,
                        [signer |-> private_key, h |-> message_hash(m)])

\* The address ECDSA recovery yields: the signer when the signature is over
\* this very tuple, otherwise an address that belongs to nobody.
recover_message(m) ==
    IF m.sig.signer # NoAddress /\ m.sig.h = message_hash(m)
    THEN m.sig.signer ELSE NoAddress

validate_signature(m, pk) == recover_message(m) = pk

\* Recovery has no result for the all-zero signature (r = 0 is no point of the
\* curve): eth_account raises BadSignature, and validate_signature, which
\* catches nothing, raises with it.
validate_signature_raises(m) == m.sig = ZeroSig

\* ------------------------------------------------------------------- state

VARIABLES
    channels,   \* channels[n]: the node's registry, channel id -> record
    paused,     \* Network._paused
    arb,        \* the arbiter contract's storage
    elapsed,    \* blocks mined after the block of the accepted close (capped)
    wallet,     \* ledger balance of every node
    txCount,    \* ledger transactions mined so far
    ret,        \* outcome of the last API call
    out,        \* the send_message calls of the last API call, in order
    saved,      \* a state a caller read with get_current_channel_state
    sent,       \* total amount each node has sent successfully
    injected,   \* direct handler invocations made so far
    lost        \* number of each node's transfers the bus has dropped

vars == <<channels, paused, arb, elapsed, wallet, txCount, ret, out, saved,
          sent, injected, lost>>

NoArbiter ==
    [deployed |-> FALSE, party1 |-> NoAddress, party2 |-> NoAddress,
     totalDeposit |-> 0, appealPeriodLen |-> 0, channelClosed |-> FALSE,
     balance1 |-> 0, balance2 |-> 0, currentSerialNum |-> 0,
     paid1 |-> FALSE, paid2 |-> FALSE]

\* A list object in the caller's hands: the node it came from, whether it is
\* that node's registry itself rather than a list of its own, and its items.
NoList == [from |-> "none", alias |-> FALSE, items |-> {}]

\* Outcomes of an API call.
Returned == [exc |-> "none", val |-> 0, flag |-> FALSE, list |-> NoList]
Raised(e) == [exc |-> e, val |-> 0, flag |-> FALSE, list |-> NoList]
ReturnedBool(b) == [exc |-> "none", val |-> 0, flag |-> b, list |-> NoList]
ReturnedInt(v) == [exc |-> "none", val |-> v, flag |-> FALSE, list |-> NoList]
ReturnedList(l) == [exc |-> "none", val |-> 0, flag |-> FALSE, list |-> l]

EmptyRegistry == [c \in {} |-> NoState]

Init ==
    /\ channels = [n \in Nodes |-> EmptyRegistry]
    /\ paused = FALSE
    /\ arb = NoArbiter
    /\ elapsed = 0
    /\ wallet = [n \in Nodes |-> InitialFunds]
    /\ txCount = 0
    /\ ret = Returned
    /\ out = <<>>
    /\ saved = NoState
    /\ sent = [n \in Nodes |-> 0]
    /\ injected = 0
    /\ lost = [n \in Nodes |-> 0]

\* ---------------------------------------------------------------- registry

Known(chs, n, c) == c \in DOMAIN chs[n]

Put(chs, n, c, rec) ==
    [chs EXCEPT ![n] = [k \in (DOMAIN chs[n]) \cup {c} |->
                            IF k = c THEN rec ELSE chs[n][k]]]

\* The registry left as it is.
Remove_Keeps(chs, n, c) == chs

Remove(chs, n, c) ==
    [chs EXCEPT ![n] = [k \in (DOMAIN chs[n]) \ {c} |-> chs[n][k]]]

get_list_of_channels(n) == DOMAIN channels[n]

\* The registry itself handed out.
list_Alias(owner, keys) == [from |-> owner, alias |-> TRUE, items |-> keys]

\* list(...): a new list holding the keys.
list(owner, keys) == [from |-> owner, alias |-> FALSE, items |-> keys]

OwnBalance(rec) == IF rec.is_party1 THEN rec.balance1 ELSE rec.balance2
OwnBalanceIn(rec, m) == IF rec.is_party1 THEN m.balance1 ELSE m.balance2

\* ----------------------------------------------------------------- arbiter

\* The party other than `caller`, or nobody when the caller is no party.
OtherParty(a, caller) ==
    IF caller = a.party1 THEN a.party2
    ELSE IF caller = a.party2 THEN a.party1 ELSE NoAddress

\* The state (b1, b2, serial, sig) is one the arbiter takes from `caller`:
\* balances sum to the deposit, and either it is the unsigned initial state
\* or it is signed over this very tuple by the other party.
ArbiterTakes(a, caller, b1, b2, serial, sig) ==
    /\ a.deployed
    /\ caller \in {a.party1, a.party2}
    /\ b1 + b2 = a.totalDeposit
    /\ \/ serial = 0 /\ sig = ZeroSig
       \/ validate_signature(ChannelStateMessage(Chan, b1, b2, serial, sig),
                             OtherParty(a, caller))

\* A close taken whoever signed the state, and after an earlier close too.
oneSidedClose_accepts_Lenient(a, caller, b1, b2, serial, sig) ==
    /\ a.deployed
    /\ caller \in {a.party1, a.party2}
    /\ b1 + b2 = a.totalDeposit

oneSidedClose_accepts(a, caller, b1, b2, serial, sig) ==
    /\ ~a.channelClosed
    /\ ArbiterTakes(a, caller, b1, b2, serial, sig)

\* A transaction sent when `e` blocks follow the closing block lands in block
\* e + 1 after it; the window is open to it while that is within the period.
WindowOpen(a, e) == a.channelClosed /\ e < a.appealPeriodLen
WindowOver(a, e) == a.channelClosed /\ e >= a.appealPeriodLen

\* An appeal taken whatever its serial.
appealClosure_accepts_AnySerial(a, e, caller, b1, b2, serial, sig) ==
    /\ WindowOpen(a, e)
    /\ sig # ZeroSig
    /\ ArbiterTakes(a, caller, b1, b2, serial, sig)

appealClosure_accepts(a, e, caller, b1, b2, serial, sig) ==
    /\ WindowOpen(a, e)
    /\ serial > a.currentSerialNum
    /\ sig # ZeroSig
    /\ ArbiterTakes(a, caller, b1, b2, serial, sig)

Recorded(a, b1, b2, serial) ==
    [a EXCEPT !.channelClosed = TRUE, !.balance1 = b1, !.balance2 = b2,
              !.currentSerialNum = serial]

\* getBalance, called from `caller`: reverts unless the window is over and the
\* caller is a party; a party already paid has nothing left.
getBalance_reverts(a, e, caller) ==
    ~(a.deployed /\ WindowOver(a, e) /\ caller \in {a.party1, a.party2})

getBalance(a, caller) ==
    IF caller = a.party1 THEN (IF a.paid1 THEN 0 ELSE a.balance1)
    ELSE (IF a.paid2 THEN 0 ELSE a.balance2)

Paid(a, caller) ==
    IF caller = a.party1 THEN [a EXCEPT !.paid1 = TRUE]
    ELSE [a EXCEPT !.paid2 = TRUE]

\* One more block after the close, counted up to the end of the window.
Tick(a, e) == IF a.channelClosed /\ e < a.appealPeriodLen THEN e + 1 ELSE e

\* ---------------------------------------------------------------- handlers

\* What a handler works on: every node's registry, the bus calls so far, and
\* the exception that is propagating, "none" when the handler returns.
World == [ch |-> channels, out |-> <<>>, arb |-> arb, exc |-> "none"]

Payload(addr, ip, m) == [addr |-> addr, ip |-> ip, m |-> m]
StatePayload(m) == Payload(m.contract_address, NoAddress, m)

NOTIFY_OF_CHANNEL == "notify"
RECEIVE_FUNDS == "receive"
ACK_TRANSFER == "ack"

\* Network._nodes: every node registers its address at construction.
NetworkNodes == Nodes

NewRecord(other_party, other_ip, total, is_party1) ==
    [other_party |-> other_party, other_ip |-> other_ip,
     total_deposit |-> total, balance1 |-> total, balance2 |-> 0,
     serial |-> 0, last_state |-> NoState, closed |-> FALSE,
     is_party1 |-> is_party1]

\* The appeal period the arbiter was deployed with is not looked at.
notify_of_channel_rejects_AnyPeriod(a, n) ==
    \/ ~a.deployed
    \/ n \notin {a.party1, a.party2}
    \/ a.channelClosed

notify_of_channel_rejects(a, n) ==
    \/ ~a.deployed
    \/ n \notin {a.party1, a.party2}
    \/ a.channelClosed
    \/ a.appealPeriodLen < APPEAL_PERIOD

\* A channel already in the registry gets its record made anew.
notify_of_channel_Overwrites(W, n, contract_address, other_party_ip_address) ==
    IF contract_address # Chan \/ notify_of_channel_rejects(W.arb, n) THEN W
    ELSE [W EXCEPT !.ch = Put(W.ch, n, contract_address,
              NewRecord(OtherParty(W.arb, n), other_party_ip_address,
                        W.arb.totalDeposit, n = W.arb.party1))]

notify_of_channel(W, n, contract_address, other_party_ip_address) ==
    IF Known(W.ch, n, contract_address) THEN W
    ELSE IF contract_address # Chan \/ notify_of_channel_rejects(W.arb, n) THEN W
    ELSE [W EXCEPT !.ch = Put(W.ch, n, contract_address,
              NewRecord(OtherParty(W.arb, n), other_party_ip_address,
                        W.arb.totalDeposit, n = W.arb.party1))]

\* The node's own balance in the message is not looked at.
ack_transfer_accepts_AnyBalance(chan, m) ==
    /\ validate_signature(m, chan.other_party)
    /\ ~(m.serial_number < chan.serial)

\* Only a serial above the local one is taken.
ack_transfer_accepts_NewerOnly(chan, m) ==
    /\ validate_signature(m, chan.other_party)
    /\ ~(m.serial_number <= chan.serial)
    /\ ~(OwnBalanceIn(chan, m) < OwnBalance(chan))

ack_transfer_accepts(chan, m) ==
    /\ validate_signature(m, chan.other_party)
    /\ ~(m.serial_number < chan.serial)
    /\ ~(OwnBalanceIn(chan, m) < OwnBalance(chan))

ack_transfer(W, n, m) ==
    IF ~Known(W.ch, n, m.contract_address) THEN W
    ELSE IF validate_signature_raises(m) THEN [W EXCEPT !.exc = "BadSignature"]
    ELSE LET chan == W.ch[n][m.contract_address] IN
         IF ~ack_transfer_accepts(chan, m) THEN W
         ELSE [W EXCEPT !.ch = Put(W.ch, n, m.contract_address,
                                   [chan EXCEPT !.last_state = m])]

\* Only the serial that follows the local one is taken.
receive_funds_accepts_NextSerialOnly(chan, m) ==
    /\ validate_signature(m, chan.other_party)
    /\ m.serial_number = chan.serial + 1
    /\ ~(OwnBalanceIn(chan, m) < OwnBalance(chan))

receive_funds_accepts_NoSignature(chan, m) ==
    /\ ~(m.serial_number <= chan.serial)
    /\ ~(OwnBalanceIn(chan, m) < OwnBalance(chan))

receive_funds_accepts_NoBalance(chan, m) ==
    /\ validate_signature(m, chan.other_party)
    /\ ~(m.serial_number <= chan.serial)

receive_funds_accepts_EqualSerial(chan, m) ==
    /\ validate_signature(m, chan.other_party)
    /\ ~(m.serial_number < chan.serial)
    /\ ~(OwnBalanceIn(chan, m) < OwnBalance(chan))

receive_funds_accepts(chan, m) ==
    /\ validate_signature(m, chan.other_party)
    /\ ~(m.serial_number <= chan.serial)
    /\ ~(OwnBalanceIn(chan, m) < OwnBalance(chan))

\* The message received, sent back as it came.
ack_msg_Echo(n, m) == m

\* The same (channel, balances, serial), signed by the receiver.
ack_msg(n, m) ==
    sign(n, ChannelStateMessage(m.contract_address, m.balance1, m.balance2,
                                m.serial_number, ZeroSig))

RECURSIVE send_message(_, _, _, _)

receive_funds(W, n, m) ==
    IF ~Known(W.ch, n, m.contract_address) THEN W
    ELSE IF validate_signature_raises(m) THEN [W EXCEPT !.exc = "BadSignature"]
    ELSE LET chan == W.ch[n][m.contract_address] IN
         IF ~receive_funds_accepts(chan, m) THEN W
         ELSE LET W1 == [W EXCEPT !.ch = Put(W.ch, n, m.contract_address,
                            [chan EXCEPT !.balance1 = m.balance1,
                                         !.balance2 = m.balance2,
                                         !.serial = m.serial_number,
                                         !.last_state = m])]
              IN send_message(W1, chan.other_ip, ACK_TRANSFER,
                              StatePayload(ack_msg(n, m)))

process_message(W, destination_ip, message, p) ==
    IF message = NOTIFY_OF_CHANNEL
    THEN notify_of_channel(W, destination_ip, p.addr, p.ip)
    ELSE IF message = RECEIVE_FUNDS
    THEN receive_funds(W, destination_ip, p.m)
    ELSE ack_transfer(W, destination_ip, p.m)

send_message_IgnoresPause(W, destination_ip, message, p) ==
    LET delivered == destination_ip \in NetworkNodes
        W1 == [W EXCEPT !.out = Append(@,
                  [dst |-> destination_ip, kind |-> message, payload |-> p,
                   delivered |-> delivered])]
    IN IF delivered THEN process_message(W1, destination_ip, message, p)
       ELSE W1

send_message(W, destination_ip, message, p) ==
    LET delivered == ~(destination_ip \notin NetworkNodes \/ paused)
        W1 == [W EXCEPT !.out = Append(@,
                  [dst |-> destination_ip, kind |-> message, payload |-> p,
                   delivered |-> delivered])]
    IN IF delivered THEN process_message(W1, destination_ip, message, p)
       ELSE W1

\* ----------------------------------------------------------------- actions

\* What the caller of a handler, or of an API call that ran handlers, sees.
Outcome(W) == IF W.exc = "none" THEN Returned ELSE Raised(W.exc)

\* The call raises `e` before it has changed or sent anything.
Fails(e) ==
    /\ ret' = Raised(e)
    /\ out' = <<>>
    /\ UNCHANGED <<channels, paused, arb, elapsed, wallet, txCount, saved, sent, lost,
                   injected>>

Deployed(n, other_party, amount) ==
    [deployed |-> TRUE, party1 |-> n, party2 |-> other_party,
     totalDeposit |-> amount, appealPeriodLen |-> APPEAL_PERIOD,
     channelClosed |-> FALSE, balance1 |-> amount, balance2 |-> 0,
     currentSerialNum |-> 0, paid1 |-> FALSE, paid2 |-> FALSE]

\* The ledger balance of the caller is not looked at.
establish_error_NoFundsCheck(w, n, amount) ==
    IF amount <= 0 THEN "Amount must be positive" ELSE "none"

\* The error establish_channel raises before it deploys, else "none".
establish_error(w, n, amount) ==
    IF amount <= 0 THEN "Amount must be positive"
    ELSE IF w[n] < amount THEN "Insufficient funds"
    ELSE "none"

establish_channel(n, other_party, other_ip, amount) ==
    IF establish_error(wallet, n, amount) # "none"
    THEN Fails(establish_error(wallet, n, amount))
    ELSE /\ ~arb.deployed
         /\ LET a1 == Deployed(n, other_party, amount)
                rec == NewRecord(other_party, other_ip, amount, TRUE)
                W0 == [ch |-> Put(channels, n, Chan, rec), out |-> <<>>,
                       arb |-> a1, exc |-> "none"]
                W == send_message(W0, other_ip, NOTIFY_OF_CHANNEL,
                                  Payload(Chan, n, NoState))
            IN /\ arb' = a1
               /\ wallet' = [wallet EXCEPT ![n] = @ - amount]
               /\ txCount' = txCount + 1
               /\ channels' = W.ch
               /\ out' = W.out
               /\ ret' = Outcome(W)
               /\ UNCHANGED <<paused, elapsed, saved, sent, lost, injected>>

\* The error send raises, "none" when its preconditions hold.
send_error_NoAmountCheck(chs, n, channel_address, amount) ==
    IF ~Known(chs, n, channel_address) THEN "Unknown channel"
    ELSE IF chs[n][channel_address].closed THEN "Channel is closed"
    ELSE IF OwnBalance(chs[n][channel_address]) < amount
    THEN "Insufficient balance"
    ELSE "none"

send_error(chs, n, channel_address, amount) ==
    IF ~Known(chs, n, channel_address) THEN "Unknown channel"
    ELSE IF amount <= 0 THEN "Amount must be positive"
    ELSE IF chs[n][channel_address].closed THEN "Channel is closed"
    ELSE IF OwnBalance(chs[n][channel_address]) < amount
    THEN "Insufficient balance"
    ELSE "none"

\* Both parties updated the way party two is.
send_update_AsPartyTwo(chan, amount) ==
    [chan EXCEPT !.balance1 = @ + amount,
                 !.balance2 = @ - amount,
                 !.serial = @ + 1]

\* The serial left as it was.
send_update_SameSerial(chan, amount) ==
    [chan EXCEPT !.balance1 = IF chan.is_party1 THEN @ - amount ELSE @ + amount,
                 !.balance2 = IF chan.is_party1 THEN @ + amount ELSE @ - amount]

\* A serial skipped with every transfer.
send_update_SkipsASerial(chan, amount) ==
    [chan EXCEPT !.balance1 = IF chan.is_party1 THEN @ - amount ELSE @ + amount,
                 !.balance2 = IF chan.is_party1 THEN @ + amount ELSE @ - amount,
                 !.serial = @ + 2]

\* The record after a transfer of `amount` from the node to its peer.
send_update(chan, amount) ==
    [chan EXCEPT !.balance1 = IF chan.is_party1 THEN @ - amount ELSE @ + amount,
                 !.balance2 = IF chan.is_party1 THEN @ + amount ELSE @ - amount,
                 !.serial = @ + 1]

\* send touches neither the ledger nor the bus's pause flag.
send_ledger_WithTx ==
    /\ txCount' = txCount + 1
    /\ UNCHANGED <<paused, arb, elapsed, wallet, saved, injected>>

send_ledger ==
    UNCHANGED <<paused, arb, elapsed, wallet, txCount, saved, injected>>

send(n, channel_address, amount) ==
    LET e == send_error(channels, n, channel_address, amount) IN
    IF e # "none" THEN Fails(e)
    ELSE LET chan == channels[n][channel_address]
             new == send_update(chan, amount)
             signed_msg == sign(n, ChannelStateMessage(channel_address,
                              new.balance1, new.balance2, new.serial, ZeroSig))
             W0 == [World EXCEPT !.ch = Put(channels, n, channel_address, new)]
             W == send_message(W0, chan.other_ip, RECEIVE_FUNDS,
                               StatePayload(signed_msg))
         IN /\ chan.serial < MaxSerial
            /\ channels' = W.ch
            /\ out' = W.out
            /\ ret' = Outcome(W)
            /\ sent' = [sent EXCEPT ![n] = @ + amount]
            /\ lost' = IF W.out[1].delivered THEN lost
                       ELSE [lost EXCEPT ![n] = @ + 1]
            /\ send_ledger

\* The state the node would close with.
current_state(chan, channel_address) ==
    IF chan.last_state = NoState
    THEN ChannelStateMessage(channel_address, chan.balance1, chan.balance2, 0,
                             ZeroSig)
    ELSE chan.last_state

get_current_channel_state(n, channel_address) ==
    IF ~Known(channels, n, channel_address) THEN Fails("Unknown channel")
    ELSE /\ saved' = current_state(channels[n][channel_address],
                                   channel_address)
         /\ ret' = Returned
         /\ out' = <<>>
         /\ UNCHANGED <<channels, paused, arb, elapsed, wallet, txCount, sent, lost,
                        injected>>

\* The arguments close_channel passes to oneSidedClose.
close_args(chan, channel_state) ==
    IF channel_state.serial_number = 0
    THEN ChannelStateMessage(Chan, chan.balance1, 0, 0, ZeroSig)
    ELSE channel_state

\* The error close_channel raises before it calls the arbiter, else "none".
close_error_NoClosedCheck(chs, n, channel_address) ==
    IF ~Known(chs, n, channel_address) THEN "Unknown channel" ELSE "none"

close_error(chs, n, channel_address) ==
    IF ~Known(chs, n, channel_address) THEN "Unknown channel"
    ELSE IF chs[n][channel_address].closed THEN "Channel already closed"
    ELSE "none"

\* Every node that knows the channel has it marked closed.
set_closed_Everywhere(chs, n, channel_address) ==
    [k \in Nodes |->
        [c \in DOMAIN chs[k] |->
            IF c = channel_address THEN [chs[k][c] EXCEPT !.closed = TRUE]
            ELSE chs[k][c]]]

\* chan['closed'] = True
set_closed(chs, n, channel_address) ==
    Put(chs, n, channel_address,
        [chs[n][channel_address] EXCEPT !.closed = TRUE])

\* The closed flag left as it is.
reconcile_closed_Skipped(chs, n, channel_address) == chs

\* if not chan['closed']: chan['closed'] = True
reconcile_closed(chs, n, channel_address) ==
    IF ~chs[n][channel_address].closed
    THEN set_closed(chs, n, channel_address)
    ELSE chs

\* `override` is the optional channel_state argument, NoState when omitted.
close_channel(n, channel_address, override) ==
    IF close_error(channels, n, channel_address) # "none"
    THEN Fails(close_error(channels, n, channel_address))
    ELSE LET chan == channels[n][channel_address]
             channel_state == IF override = NoState
                              THEN current_state(chan, channel_address)
                              ELSE override
             x == close_args(chan, channel_state)
         IN IF ~oneSidedClose_accepts(arb, n, x.balance1, x.balance2,
                                      x.serial_number, x.sig)
            THEN Fails("revert")
            ELSE /\ arb' = Recorded(arb, x.balance1, x.balance2,
                                    x.serial_number)
                 /\ elapsed' = 0
                 /\ txCount' = txCount + 1
                 /\ channels' = set_closed(channels, n, channel_address)
                 /\ ret' = ReturnedBool(TRUE)
                 /\ out' = <<>>
                 /\ UNCHANGED <<paused, wallet, saved, sent, lost, injected>>

appeal_closed_chan(n, contract_address) ==
    IF \/ ~Known(channels, n, contract_address)
       \/ ~arb.deployed
       \/ ~arb.channelClosed
    THEN /\ ret' = ReturnedBool(FALSE)
         /\ out' = <<>>
         /\ UNCHANGED <<channels, paused, arb, elapsed, wallet, txCount, saved,
                        sent, lost, injected>>
    ELSE LET chan == channels[n][contract_address]
             my_state == chan.last_state
         IN /\ channels' = reconcile_closed(channels, n, contract_address)
            /\ out' = <<>>
            /\ UNCHANGED <<paused, wallet, saved, sent, lost, injected>>
            /\ IF \/ my_state = NoState
                  \/ my_state.serial_number <= arb.currentSerialNum
               THEN /\ ret' = ReturnedBool(FALSE)
                    /\ UNCHANGED <<arb, elapsed, txCount>>
               ELSE IF ~appealClosure_accepts(arb, elapsed, n,
                          my_state.balance1, my_state.balance2,
                          my_state.serial_number, my_state.sig)
               THEN /\ ret' = Raised("revert")
                    /\ UNCHANGED <<arb, elapsed, txCount>>
               ELSE /\ arb' = Recorded(arb, my_state.balance1,
                                       my_state.balance2,
                                       my_state.serial_number)
                    /\ elapsed' = Tick(arb, elapsed)
                    /\ txCount' = txCount + 1
                    /\ ret' = ReturnedBool(TRUE)

\* A withdrawFunds transaction sent whatever the balance.
withdraw_transacts_Always(balance) == TRUE

\* withdraw_funds sends a withdrawFunds transaction for this balance.
withdraw_transacts(balance) == balance > 0

\* Only an arbiter still open makes the call fail.
withdraw_error_ClosedSuffices(chs, a, e, n, contract_address) ==
    IF ~Known(chs, n, contract_address) THEN "Unknown channel"
    ELSE IF ~a.channelClosed THEN "Cannot withdraw yet"
    ELSE "none"

\* The failure of getBalance goes unnoticed.
withdraw_error_NoWindowCheck(chs, a, e, n, contract_address) ==
    IF ~Known(chs, n, contract_address) THEN "Unknown channel" ELSE "none"

\* What withdraw_funds raises before it transacts, "none" when it goes on.
withdraw_error(chs, a, e, n, contract_address) ==
    IF ~Known(chs, n, contract_address) THEN "Unknown channel"
    ELSE IF getBalance_reverts(a, e, n) THEN "Cannot withdraw yet"
    ELSE "none"

withdraw_funds(n, contract_address) ==
    IF withdraw_error(channels, arb, elapsed, n, contract_address) # "none"
    THEN Fails(withdraw_error(channels, arb, elapsed, n, contract_address))
    ELSE LET balance == getBalance(arb, n) IN
         /\ IF withdraw_transacts(balance)
            THEN /\ arb' = Paid(arb, n)
                 /\ wallet' = [wallet EXCEPT ![n] = @ + balance]
                 /\ txCount' = txCount + 1
                 /\ elapsed' = Tick(arb, elapsed)
            ELSE UNCHANGED <<arb, wallet, txCount, elapsed>>
         /\ channels' = Remove(channels, n, contract_address)
         /\ ret' = ReturnedInt(balance)
         /\ out' = <<>>
         /\ UNCHANGED <<paused, saved, sent, lost, injected>>

call_get_list_of_channels(n) ==
    /\ ret' = ReturnedList(list(n, get_list_of_channels(n)))
    /\ out' = <<>>
    /\ UNCHANGED <<channels, paused, arb, elapsed, wallet, txCount, saved, sent, lost,
                   injected>>

\* The caller clears the list it was handed; a list that is the registry
\* takes the registry's entries with it.
clear ==
    /\ ret.list.from # "none"
    /\ ret' = [ret EXCEPT !.list.items = {}]
    /\ channels' = IF ret.list.alias
                   THEN [channels EXCEPT ![ret.list.from] = EmptyRegistry]
                   ELSE channels
    /\ out' = <<>>
    /\ UNCHANGED <<paused, arb, elapsed, wallet, txCount, saved, sent, lost,
                   injected>>

\* withdraw_funds when the withdrawFunds transaction it submits does not
\* succeed.  Either transact raises (the failure shows before the transaction
\* is sent) and nothing after it runs, or the transaction is mined and its
\* receipt says failed: the receipt is not looked at, the record is deleted
\* and the balance returned.
withdraw_funds_failing(n, contract_address) ==
    /\ withdraw_error(channels, arb, elapsed, n, contract_address) = "none"
    /\ withdraw_transacts(getBalance(arb, n))
    /\ \/ Fails("revert")
       \/ /\ channels' = Remove(channels, n, contract_address)
          /\ txCount' = txCount + 1
          /\ elapsed' = Tick(arb, elapsed)
          /\ ret' = ReturnedInt(getBalance(arb, n))
          /\ out' = <<>>
          /\ UNCHANGED <<paused, arb, wallet, saved, sent, lost, injected>>

\* The harness mines one block (only blocks after a close are counted).
mine_blocks ==
    /\ arb.channelClosed
    /\ elapsed < arb.appealPeriodLen
    /\ elapsed' = elapsed + 1
    /\ ret' = Returned
    /\ out' = <<>>
    /\ UNCHANGED <<channels, paused, arb, wallet, txCount, saved, sent, lost,
                   injected>>

stop ==
    /\ paused' = TRUE
    /\ ret' = Returned
    /\ out' = <<>>
    /\ UNCHANGED <<channels, arb, elapsed, wallet, txCount, saved, sent, lost,
                   injected>>

resume ==
    /\ paused' = FALSE
    /\ ret' = Returned
    /\ out' = <<>>
    /\ UNCHANGED <<channels, arb, elapsed, wallet, txCount, saved, sent, lost,
                   injected>>

\* ------------------------------------------- handlers invoked by an outsider

\* State messages an outsider can build: any tuple signed with any node's key,
\* left unsigned, carrying a signature made over another tuple, or naming a
\* channel nobody opened.
SignedCrafted ==
    {sign(k, ChannelStateMessage(Chan, b1, b2, s, ZeroSig)) :
        k \in {Opener, Responder}, b1 \in CraftBalances, b2 \in CraftBalances,
        s \in CraftSerials}

\* The same sorts of message, one of each: signed by a third party, unsigned,
\* signed over another tuple, and signed for another channel.
OddCrafted ==
    {sign("charlie", ChannelStateMessage(Chan, 0, InitialFunds, 1, ZeroSig)),
     ChannelStateMessage(Chan, 0, InitialFunds, 1, ZeroSig),
     [sign(Opener, ChannelStateMessage(Chan, 0, InitialFunds, 0, ZeroSig))
         EXCEPT !.serial_number = 1],
     [sign(Responder, ChannelStateMessage(Chan, InitialFunds, 0, 0, ZeroSig))
         EXCEPT !.serial_number = 1],
     sign(Opener, ChannelStateMessage("other", 0, InitialFunds, 1, ZeroSig))}

Crafted == SignedCrafted \cup OddCrafted

Handled(W) ==
    /\ injected < MaxInject
    /\ injected' = injected + 1
    /\ channels' = W.ch
    /\ out' = W.out
    /\ ret' = Outcome(W)
    /\ UNCHANGED <<paused, arb, elapsed, wallet, txCount, saved, sent, lost>>

call_notify_of_channel(n, contract_address, ip) ==
    Handled(notify_of_channel(World, n, contract_address, ip))

call_receive_funds(n, m) == Handled(receive_funds(World, n, m))

call_ack_transfer(n, m) == Handled(ack_transfer(World, n, m))

\* ------------------------------------------- the contract used without a node

\* Appeal periods a contract may be deployed with.
Periods == {APPEAL_PERIOD - 1, APPEAL_PERIOD}

\* Contract.deploy called by an account directly, with an appeal period of
\* its choosing: the arbiter exists, no node has a record of it.
deploy(n, other_party, amount, period) ==
    /\ ~arb.deployed
    /\ wallet[n] >= amount
    /\ arb' = [Deployed(n, other_party, amount)
                  EXCEPT !.appealPeriodLen = period]
    /\ wallet' = [wallet EXCEPT ![n] = @ - amount]
    /\ txCount' = txCount + 1
    /\ ret' = Returned
    /\ out' = <<>>
    /\ UNCHANGED <<channels, paused, elapsed, saved, sent, lost, injected>>

\* Contract.transact(user, "oneSidedClose", ...) with the initial state.
transact_oneSidedClose(n) ==
    /\ oneSidedClose_accepts(arb, n, arb.totalDeposit, 0, 0, ZeroSig)
    /\ arb' = Recorded(arb, arb.totalDeposit, 0, 0)
    /\ elapsed' = 0
    /\ txCount' = txCount + 1
    /\ ret' = Returned
    /\ out' = <<>>
    /\ UNCHANGED <<channels, paused, wallet, saved, sent, lost, injected>>

\* ---------------------------------------------------------- specifications

Parties == {Opener, Responder}
Deposits == 1 .. InitialFunds

\* The nodes' own calls, the bus never paused.
NextHonest ==
    \/ \E a \in Amounts : establish_channel(Opener, Responder, Responder, a)
    \/ \E n \in Nodes, a \in Amounts : send(n, Chan, a)
    \/ \E n \in Nodes : close_channel(n, Chan, NoState)
    \/ \E n \in Nodes : appeal_closed_chan(n, Chan)
    \/ \E n \in Nodes : withdraw_funds(n, Chan)
    \/ mine_blocks

\* Transfers that succeed locally, whatever becomes of the message.
Transfers ==
    \/ \E a \in Deposits :
          ~arb.deployed /\ establish_channel(Opener, Responder, Responder, a)
    \/ \E n \in Parties, a \in Deposits :
          send_error(channels, n, Chan, a) = "none" /\ send(n, Chan, a)

\* Handlers invoked directly by an outsider with crafted messages.
Outsider ==
    /\ injected < MaxInject
    /\ \/ \E n \in Nodes, ip \in Parties : call_notify_of_channel(n, Chan, ip)
       \/ \E n \in Parties, m \in Crafted : call_receive_funds(n, m)
       \/ \E m \in OddCrafted : call_receive_funds("charlie", m)
       \/ \E n \in Parties, m \in Crafted : call_ack_transfer(n, m)
       \/ \E m \in OddCrafted : call_ack_transfer("charlie", m)

\* The off-chain protocol over a bus that may drop every message.
NextLossy ==
    \/ Transfers
    \/ stop
    \/ resume

\* The off-chain protocol against an outsider.
NextOffChain ==
    \/ Transfers
    \/ Outsider

\* Closing, appealing and withdrawing.
Settlement ==
    \/ \E n \in Parties : close_channel(n, Chan, NoState)
    \/ \E n \in Parties : appeal_closed_chan(n, Chan)
    \/ \E n \in Parties : withdraw_funds(n, Chan)
    \/ mine_blocks

\* A party reads its state once and may later close with that old state.
StaleClose ==
    \/ \E n \in Parties : saved = NoState /\ get_current_channel_state(n, Chan)
    \/ \E n \in Parties : saved # NoState /\ close_channel(n, Chan, saved)

\* A party that cheats: crafted messages, old states, then settlement.
NextCheat ==
    \/ Transfers
    \/ Outsider
    \/ StaleClose
    \/ Settlement

\* A party closes with a state of its own making, or with the one it holds.
ForgedClose ==
    \/ \E n \in Parties, m \in Crafted : close_channel(n, Chan, m)
    \/ \E n \in Parties : close_channel(n, Chan, NoState)

\* Transfers, then closes with arbitrary states.
NextForge ==
    \/ Transfers
    \/ ForgedClose

\* The states the tests try to close with, built from what the closer holds:
\* none (the node's own choice), an unsigned state with a serial above 0,
\* one signed by a third party, one signed by the closer itself, and the
\* held state with a balance raised.
CloseAttempts(n) ==
    IF ~Known(channels, n, Chan) THEN {NoState}
    ELSE LET chan == channels[n][Chan]
             t == ChannelStateMessage(Chan, chan.balance1, chan.balance2,
                                      chan.serial + 1, ZeroSig)
         IN {NoState, t, sign("charlie", t), sign(n, t),
             [current_state(chan, Chan) EXCEPT !.balance2 = @ + 1]}

CheatingClose ==
    \E n \in Parties : \E m \in CloseAttempts(n) : close_channel(n, Chan, m)

\* Transfers, then closes with the states of the tests.
NextClose ==
    \/ Transfers
    \/ CheatingClose

\* The states the tests appeal with: the one the node holds, or one read
\* earlier with get_current_channel_state.
AppealAttempts(n) ==
    IF ~Known(channels, n, Chan) THEN {}
    ELSE {current_state(channels[n][Chan], Chan), saved} \ {NoState}

\* Contract.transact(user, "appealClosure", ...) with the state x.
transact_appealClosure(n, x) ==
    /\ arb.deployed
    /\ IF ~appealClosure_accepts(arb, elapsed, n, x.balance1, x.balance2,
                                 x.serial_number, x.sig)
       THEN Fails("revert")
       ELSE /\ arb' = Recorded(arb, x.balance1, x.balance2, x.serial_number)
            /\ elapsed' = Tick(arb, elapsed)
            /\ txCount' = txCount + 1
            /\ ret' = Returned
            /\ out' = <<>>
            /\ UNCHANGED <<channels, paused, wallet, saved, sent, lost, injected>>

\* Transfers, a close with the held or an old state, then appeals through
\* the node and straight to the arbiter, while blocks are mined.
NextAppeal ==
    \/ Transfers
    \/ StaleClose
    \/ \E n \in Parties : close_channel(n, Chan, NoState)
    \/ \E n \in Parties : appeal_closed_chan(n, Chan)
    \/ \E n \in Parties : \E x \in AppealAttempts(n) :
          transact_appealClosure(n, x)
    \/ mine_blocks

\* Transfers over a bus that may drop them, closes and appeals.
NextSerial ==
    \/ NextLossy
    \/ \E n \in Parties : close_channel(n, Chan, NoState)
    \/ \E n \in Parties : appeal_closed_chan(n, Chan)
    \/ mine_blocks

\* receive_funds invoked directly, at any node, with any crafted message.
Replay ==
    /\ injected < MaxInject
    /\ \E n \in Nodes, m \in Crafted : call_receive_funds(n, m)

\* Transfers, and messages handed to receive_funds out of turn.
NextReplay ==
    \/ Transfers
    \/ Replay

\* A caller asks for the list of channels and clears what it gets.
ListUse ==
    \/ \E n \in Nodes : call_get_list_of_channels(n)
    \/ clear

\* The nodes' own calls, and callers that clear the lists they are handed.
NextList ==
    \/ NextHonest
    \/ ListUse

\* A contract somebody deployed, perhaps closed already, and nodes told of it.
NextNotify ==
    \/ \E n \in Nodes, o \in Nodes, a \in Deposits, p \in Periods :
          o # n /\ deploy(n, o, a, p)
    \/ \E n \in Nodes : transact_oneSidedClose(n)
    \/ \E n \in Nodes, ip \in Nodes : call_notify_of_channel(n, Chan, ip)

\* ack_transfer invoked directly, at any node, with any crafted message.
Echo ==
    /\ injected < MaxInject
    /\ \E n \in Nodes, m \in Crafted : call_ack_transfer(n, m)

\* Transfers, and acknowledgements nobody asked for.
NextEcho ==
    \/ Transfers
    \/ Echo

\* A node is told again of a channel it has, with another network id.
Renotify ==
    \E n \in Parties, ip \in Nodes :
        /\ Known(channels, n, Chan)
        /\ ip # channels[n][Chan].other_ip
        /\ call_notify_of_channel(n, Chan, ip)

\* The nodes' own calls, and notifications of channels already known.
NextRenotify ==
    \/ NextHonest
    \/ Renotify

\* The nodes' own calls over a ledger on which a withdrawal may fail.
NextFlaky ==
    \/ NextHonest
    \/ \E n \in Parties : withdraw_funds_failing(n, Chan)

Spec == Init /\ [][NextHonest]_vars

SpecFlaky == Init /\ [][NextFlaky]_vars

SpecRenotify == Init /\ [][NextRenotify]_vars

SpecEcho == Init /\ [][NextEcho]_vars

SpecNotify == Init /\ [][NextNotify]_vars

SpecList == Init /\ [][NextList]_vars

SpecReplay == Init /\ [][NextReplay]_vars

SpecForge == Init /\ [][NextForge]_vars

SpecClose == Init /\ [][NextClose]_vars

SpecAppeal == Init /\ [][NextAppeal]_vars

SpecSerial == Init /\ [][NextSerial]_vars

SpecLossy == Init /\ [][NextLossy]_vars

SpecOffChain == Init /\ [][NextOffChain]_vars

SpecCheat == Init /\ [][NextCheat]_vars

\* ------------------------------------------------------------------ claims

Records == {<<n, c>> \in Nodes \X {Chan, "other"} : Known(channels, n, c)}
Rec(x) == channels[x[1]][x[2]]

\* C1: in every reachable state every channel record of every node has
\* local_balance1 + local_balance2 = total_deposit.
C1_LocalBalancesSumToDeposit ==
    \A x \in Records : Rec(x).balance1 + Rec(x).balance2 = Rec(x).total_deposit

\* C2: no node ever stores as last_countersigned a state message whose
\* balance1 + balance2 differs from the channel's total_deposit.
C2_StoredStateSumsToDeposit ==
    \A x \in Records :
        Rec(x).last_state # NoState =>
            Rec(x).last_state.balance1 + Rec(x).last_state.balance2
                = Rec(x).total_deposit

\* C3: for every node and channel the serial of last_countersigned never
\* decreases from one state of the record to the next.
C3_CountersignedSerialNeverDecreases ==
    [][\A x \in Records :
          (Known(channels', x[1], x[2]) /\ Rec(x).last_state # NoState) =>
              channels'[x[1]][x[2]].last_state.serial_number
                  >= Rec(x).last_state.serial_number]_vars

\* C4: when the arbiter is closed with a countersigned state older than the
\* one a party holds countersigned and that party calls appeal_closed_chan
\* while the window is open, the call returns true and the arbiter records the
\* balances and serial of that party's last_countersigned.
C4_AppealOverridesStaleClose ==
    [][\A n \in Parties :
          (/\ Known(channels, n, Chan)
           /\ ~channels[n][Chan].closed
           /\ WindowOpen(arb, elapsed)
           /\ arb.currentSerialNum > 0
           /\ channels[n][Chan].last_state # NoState
           /\ channels[n][Chan].last_state.serial_number > arb.currentSerialNum
           /\ appeal_closed_chan(n, Chan))
          => (/\ ret' = ReturnedBool(TRUE)
              /\ arb'.balance1 = channels[n][Chan].last_state.balance1
              /\ arb'.balance2 = channels[n][Chan].last_state.balance2
              /\ arb'.currentSerialNum
                    = channels[n][Chan].last_state.serial_number)]_vars

\* C5: right after a send whose ack did not arrive (last_countersigned is what
\* it was), the state the node holds for closing gives it a strictly larger
\* own balance than its local, unacknowledged one.
C5_HeldStateBeatsUnackedSend ==
    [][\A n \in Parties, a \in Deposits :
          (/\ send_error(channels, n, Chan, a) = "none"
           /\ send(n, Chan, a)
           /\ channels'[n][Chan].last_state = channels[n][Chan].last_state)
          => OwnBalanceIn(channels'[n][Chan],
                          current_state(channels'[n][Chan], Chan))
                > OwnBalance(channels'[n][Chan])]_vars

\* Second half of C5: the held state never gives the node less than its
\* local balance.
HeldStateNotWorse ==
    \A x \in Records :
        OwnBalanceIn(Rec(x), current_state(Rec(x), x[2])) >= OwnBalance(Rec(x))

\* C6: a node's own balance never decreases through an inbound receive_funds
\* or ack_transfer, whether the handler is invoked directly or run by the bus
\* in the course of the peer's send: in every step a record's own balance
\* goes down only when the step is that node's own send.
C6_InboundNeverLowersOwnBalance ==
    [][\A x \in Records :
          \/ /\ Known(channels', x[1], x[2])
             /\ OwnBalance(channels'[x[1]][x[2]]) >= OwnBalance(Rec(x))
          \/ \E a \in Deposits : send(x[1], Chan, a)]_vars

\* A crafted message that raises the receiver's balance has been accepted:
\* the receiver answered with an ack and holds the message's balances.
C6_Witness ==
    /\ injected > 0
    /\ out # <<>>
    /\ out[1].kind = ACK_TRANSFER
    /\ \E n \in Parties :
          /\ Known(channels, n, Chan)
          /\ channels[n][Chan].last_state = [out[1].payload.m EXCEPT
                 !.sig = channels[n][Chan].last_state.sig]
          /\ OwnBalance(channels[n][Chan]) > 0
          /\ channels[n][Chan].serial = out[1].payload.m.serial_number

\* C7: every state message stored as last_countersigned carries a signature
\* that verifies against the record's peer address, never the node's own or a
\* third party's.
C7_StoredStateSignedByPeer ==
    \A x \in Records :
        Rec(x).last_state # NoState =>
            /\ Rec(x).last_state.sig # ZeroSig
            /\ validate_signature(Rec(x).last_state, Rec(x).other_party)
            /\ recover_message(Rec(x).last_state) # x[1]
            /\ Rec(x).last_state.contract_address = x[2]

\* Both parties hold a countersigned state, one of them from a direct call.
C7_Witness ==
    /\ injected > 0
    /\ \A n \in Parties :
          /\ Known(channels, n, Chan)
          /\ channels[n][Chan].last_state # NoState
    /\ channels[Opener][Chan].last_state.serial_number
          # channels[Responder][Chan].last_state.serial_number

\* C8: with the bus never paused and only the opener sending, a total of T,
\* once the channel is closed with the state the withdrawing node is at and
\* the window is over, withdraw_funds returns T to the receiver and
\* total_deposit - T to the opener; when both have withdrawn, the two wallets
\* together hold again all the funds they started with.
C8_WithdrawalsMatchTransfers ==
    [][\A n \in Parties :
          (/\ Known(channels, n, Chan)
           /\ ~getBalance_reverts(arb, elapsed, n)
           /\ sent[Responder] = 0
           /\ channels[n][Chan].serial = arb.currentSerialNum
           /\ withdraw_funds(n, Chan))
          => /\ ret'.exc = "none"
             /\ ret'.val = IF n = Responder THEN sent[Opener]
                           ELSE arb.totalDeposit - sent[Opener]
             /\ (\A k \in Parties : ~Known(channels', k, Chan)) =>
                    wallet'[Opener] + wallet'[Responder] = 2 * InitialFunds]_vars

\* Both parties have withdrawn after the opener sent part of the deposit; the
\* last call returned the receiver its share.
C8_Witness ==
    /\ arb.deployed
    /\ \A k \in Parties : ~Known(channels, k, Chan)
    /\ sent[Responder] = 0
    /\ sent[Opener] > 0
    /\ sent[Opener] < arb.totalDeposit
    /\ arb.paid1 /\ arb.paid2
    /\ ret = ReturnedInt(sent[Opener])
    /\ wallet[Responder] = InitialFunds + sent[Opener]

\* C9: no send, and no receive_funds or ack_transfer whether run by the bus
\* inside a send or invoked directly, accepted or dropped, mines a ledger
\* transaction or touches the arbiter or a wallet.
C9_OffChainPathLeavesLedgerAlone ==
    [][\/ /\ txCount' = txCount
          /\ arb' = arb
          /\ wallet' = wallet
       \/ ~(\/ injected' # injected
            \/ \E n \in Parties, a \in Deposits : send(n, Chan, a))]_vars

\* A transfer went through both handlers and the only transaction so far is
\* the deployment.
C9_Witness ==
    /\ txCount = 1
    /\ Len(out) = 2
    /\ out[1].kind = RECEIVE_FUNDS /\ out[1].delivered
    /\ out[2].kind = ACK_TRANSFER /\ out[2].delivered
    /\ sent[Opener] > 0
    /\ channels[Opener][Chan].last_state.serial_number
          = channels[Opener][Chan].serial
    /\ arb.balance1 = arb.totalDeposit

\* C10: a send on an unknown channel, on a locally closed channel, of an
\* amount <= 0, or of more than the node's own local balance raises an error,
\* leaves every record as it was and dispatches no message.
C10_FailedSendChangesNothing ==
    [][\A n \in Nodes, a \in Amounts :
          (/\ \/ ~Known(channels, n, Chan)
              \/ channels[n][Chan].closed
              \/ a <= 0
              \/ OwnBalance(channels[n][Chan]) < a
           /\ send(n, Chan, a))
          => /\ ret'.exc # "none"
             /\ channels' = channels
             /\ out' = <<>>
             /\ sent' = sent]_vars

\* A send of more than the sender has left was refused after an earlier
\* transfer had gone through.
C10_Witness ==
    /\ ret.exc = "Insufficient balance"
    /\ out = <<>>
    /\ \E n \in Parties :
          /\ Known(channels, n, Chan)
          /\ ~channels[n][Chan].closed
          /\ channels[n][Chan].serial > 0
          /\ OwnBalance(channels[n][Chan]) <= InitialFunds

\* C11: once the arbiter holds a close, a further close_channel by either
\* party raises and mines no transaction: the closer is stopped by its own
\* closed flag ("Channel already closed"), the peer, whose record is still
\* open, by the arbiter's refusal.
C11_DoubleCloseRefused ==
    [][\A n \in Parties :
          (/\ arb.channelClosed
           /\ Known(channels, n, Chan)
           /\ close_channel(n, Chan, NoState))
          => /\ ret'.exc # "none"
             /\ channels[n][Chan].closed => ret'.exc = "Channel already closed"
             /\ txCount' = txCount
             /\ arb' = arb
             /\ channels' = channels]_vars

\* The peer of the closer, never told of the close, tried to close after a
\* transfer and was refused by the arbiter; only deploy and close were mined.
C11_Witness ==
    /\ ret = Raised("revert")
    /\ arb.channelClosed
    /\ arb.currentSerialNum > 0
    /\ txCount = 2
    /\ \E n \in Parties :
          /\ Known(channels, n, Chan)
          /\ ~channels[n][Chan].closed
          /\ channels[OtherParty(arb, n)][Chan].closed

\* C12: a close_channel on a known, not locally closed channel sets the
\* record's closed flag whether or not the arbiter takes the close, and
\* returns true exactly when it does (false when the arbiter rejects).
\* Stated for closes the arbiter has not yet seen any close before.
C12_CloseSetsFlagAndReturnsReceiptStatus ==
    [][\A n \in Parties, m \in Crafted \cup {NoState} :
          (/\ close_error(channels, n, Chan) = "none"
           /\ ~arb.channelClosed
           /\ close_channel(n, Chan, m))
          => /\ channels'[n][Chan].closed
             /\ ret'.exc = "none"
             /\ ret'.flag = arb'.channelClosed]_vars

\* C13: for every known channel, the state get_current_channel_state returns
\* is last_countersigned when the record holds one, and otherwise the
\* initial-state placeholder (channel, total_deposit, 0, serial 0, zero
\* signature), also after sends that were never acknowledged.
C13_HeldStateIsCountersignedOrInitial ==
    \A x \in Records :
        current_state(Rec(x), x[2]) =
            IF Rec(x).last_state # NoState THEN Rec(x).last_state
            ELSE ChannelStateMessage(x[2], Rec(x).total_deposit, 0, 0, ZeroSig)

\* The checks whose failure makes receive_funds drop M, as the claim lists
\* them.
C14_Dropped(n, m) ==
    \/ ~Known(channels, n, m.contract_address)
    \/ recover_message(m) # channels[n][m.contract_address].other_party
    \/ m.serial_number <= channels[n][m.contract_address].serial
    \/ OwnBalanceIn(channels[n][m.contract_address], m)
          < OwnBalance(channels[n][m.contract_address])

\* C14: in every state from which receive_funds is invoked, receive_funds(M)
\* at any node, for any M whose channel is unknown to it, that its peer did
\* not sign, whose serial is not above the local one or that lowers the
\* node's own balance, changes no registry (no record created or altered, so
\* the held state is what it was) and sends nothing; the handler makes no
\* contract call.
C14_RejectedReceiveIsNoOp ==
    injected < MaxInject =>
        \A n \in Nodes, m \in Crafted :
            C14_Dropped(n, m) =>
                /\ receive_funds(World, n, m).ch = channels
                /\ receive_funds(World, n, m).out = <<>>
                /\ receive_funds(World, n, m).arb = arb

\* A direct receive_funds with a stale serial has just been dropped at a node
\* that holds a newer countersigned state.
C14_Witness ==
    /\ injected > 0
    /\ out = <<>>
    /\ ret = Returned
    /\ \E n \in Parties :
          /\ Known(channels, n, Chan)
          /\ channels[n][Chan].serial > 1
          /\ channels[n][Chan].last_state.serial_number
                = channels[n][Chan].serial

\* C15: no direct call of notify_of_channel, receive_funds or ack_transfer
\* raises, whatever the message: every failed check is a silent drop.
C15_InboundHandlersNeverRaise ==
    [][injected' # injected => ret'.exc = "none"]_vars

\* C16: when withdraw_funds(c) returns at a node, c is no longer in that
\* node's get_list_of_channels(); a further withdraw_funds(c) by a party that
\* has withdrawn raises (the channel is unknown to it) and mines nothing.
C16_WithdrawForgetsChannel ==
    [][\A n \in Parties :
          /\ (/\ Known(channels, n, Chan)
              /\ ~getBalance_reverts(arb, elapsed, n)
              /\ withdraw_funds(n, Chan))
             => /\ ret'.exc = "none"
                /\ Chan \notin get_list_of_channels(n)'
          /\ (/\ ~Known(channels, n, Chan)
              /\ arb.channelClosed
              /\ withdraw_funds(n, Chan))
             => /\ ret' = Raised("Unknown channel")
                /\ txCount' = txCount
                /\ arb' = arb
                /\ wallet' = wallet
                /\ channels' = channels]_vars

\* The opener took its share and the channel is gone from its list; a call
\* on the channel it no longer knows was refused.
C16_Witness ==
    /\ arb.paid1
    /\ Chan \notin get_list_of_channels(Opener)
    /\ wallet[Opener] = InitialFunds - sent[Opener]
    /\ sent[Opener] > 0
    /\ ret = Raised("Unknown channel")

\* C17: a withdraw_funds that goes through mines a withdrawFunds transaction
\* only when the arbiter reports a balance > 0 for the caller; with a balance
\* of 0 it returns 0, mines nothing and still removes the record.  So when
\* nothing was ever sent and both parties have withdrawn, exactly three
\* transactions were mined: deploy, close, the opener's withdrawal.
C17_WithdrawTransactsOnlyForPositiveBalance ==
    [][\A n \in Parties :
          (/\ Known(channels, n, Chan)
           /\ ~getBalance_reverts(arb, elapsed, n)
           /\ withdraw_funds(n, Chan))
          => /\ ret' = ReturnedInt(getBalance(arb, n))
             /\ ~Known(channels', n, Chan)
             /\ getBalance(arb, n) = 0 =>
                    /\ txCount' = txCount
                    /\ arb' = arb
                    /\ wallet' = wallet
             /\ getBalance(arb, n) > 0 =>
                    /\ txCount' = txCount + 1
                    /\ wallet' = [wallet EXCEPT ![n] = @ + getBalance(arb, n)]
             /\ (/\ \A k \in Nodes : sent[k] = 0
                 /\ \A k \in Parties : ~Known(channels', k, Chan))
                => txCount' = 3]_vars

\* Open, close and both withdrawals with nothing sent: three transactions,
\* the receiver's withdrawal of 0 mined none, the opener has its deposit back.
C17_Witness ==
    /\ arb.channelClosed
    /\ \A k \in Nodes : sent[k] = 0
    /\ \A k \in Parties : ~Known(channels, k, Chan)
    /\ arb.paid1 /\ ~arb.paid2
    /\ txCount = 3
    /\ wallet[Opener] = InitialFunds
    /\ ret = ReturnedInt(0)

\* C18: withdraw_funds on a known channel that is not closed on-chain, or
\* whose appeal window has not elapsed, raises "Cannot withdraw yet", mines
\* no transaction, pays nothing and leaves the record in the registry.
C18_EarlyWithdrawFailsAndKeepsRecord ==
    [][\A n \in Parties :
          \/ /\ ret' = Raised("Cannot withdraw yet")
             /\ txCount' = txCount
             /\ arb' = arb
             /\ wallet' = wallet
             /\ channels' = channels
          \/ ~(/\ Known(channels, n, Chan)
               /\ (~arb.channelClosed \/ elapsed < APPEAL_PERIOD)
               /\ withdraw_funds(n, Chan))]_vars

\* A withdrawal refused inside the window of a channel closed after a
\* transfer: both records are still there, only deploy and close were mined.
C18_Witness ==
    /\ ret = Raised("Cannot withdraw yet")
    /\ arb.channelClosed
    /\ elapsed < APPEAL_PERIOD
    /\ arb.currentSerialNum > 0
    /\ \A k \in Parties : Known(channels, k, Chan)
    /\ txCount = 2
    /\ ~arb.paid1 /\ ~arb.paid2

\* C19: clearing the list get_list_of_channels returned changes neither any
\* registry nor what get_list_of_channels returns afterwards, and a call
\* always returns the registry's keys.
C19_ReturnedListIsIndependent ==
    [][/\ \/ /\ channels' = channels
              /\ \A n \in Nodes :
                    get_list_of_channels(n)' = get_list_of_channels(n)
           \/ ~clear
       /\ \A n \in Nodes :
             \/ ret'.list.items = get_list_of_channels(n)'
             \/ ~call_get_list_of_channels(n)]_vars

\* The opener's list was cleared while its registry still holds the channel.
C19_Witness ==
    /\ ret.list.from = Opener
    /\ ret.list.items = {}
    /\ get_list_of_channels(Opener) = {Chan}

\* appeal_closed_chan of node n has nothing to appeal with: the channel is
\* unknown or not closed on-chain, or the node holds no countersigned state,
\* or one whose serial is not above the arbiter's.
C20_NothingToAppeal(n) ==
    \/ ~Known(channels, n, Chan)
    \/ ~arb.channelClosed
    \/ channels[n][Chan].last_state = NoState
    \/ channels[n][Chan].last_state.serial_number <= arb.currentSerialNum

\* C20: appeal_closed_chan returns false and mines nothing when there is
\* nothing to appeal with; otherwise it submits appealClosure with the held
\* state and returns whether that transaction succeeded.
C20_AppealReturnsFalseOrReceiptStatus ==
    [][\A n \in Nodes :
          \/ IF C20_NothingToAppeal(n)
             THEN /\ ret' = ReturnedBool(FALSE)
                  /\ txCount' = txCount
                  /\ arb' = arb
             ELSE /\ ret'.exc = "none"
                  /\ ret'.flag =
                        (arb' = Recorded(arb,
                                   channels[n][Chan].last_state.balance1,
                                   channels[n][Chan].last_state.balance2,
                                   channels[n][Chan].last_state.serial_number))
          \/ ~appeal_closed_chan(n, Chan)]_vars

C22_EstablishChecksThenRecordsAndNotifies ==
    [][\A a \in Amounts :
          \/ IF a <= 0 \/ wallet[Opener] < a
             THEN /\ ret' = Raised(IF a <= 0 THEN "Amount must be positive"
                                   ELSE "Insufficient funds")
                  /\ arb' = arb
                  /\ txCount' = txCount
                  /\ wallet' = wallet
                  /\ channels' = channels
                  /\ out' = <<>>
             ELSE /\ ret'.exc = "none"
                  /\ arb'.deployed
                  /\ txCount' = txCount + 1
                  /\ Known(channels', Opener, Chan)
                  /\ channels'[Opener][Chan].is_party1
                  /\ channels'[Opener][Chan].balance1 = a
                  /\ channels'[Opener][Chan].balance2 = 0
                  /\ channels'[Opener][Chan].serial = 0
                  /\ Len(out') = 1
                  /\ out'[1].kind = NOTIFY_OF_CHANNEL
                  /\ out'[1].dst = Responder
                  /\ out'[1].payload.addr = Chan
                  /\ ~paused =>
                        /\ Known(channels', Responder, Chan)
                        /\ ~channels'[Responder][Chan].is_party1
                        /\ channels'[Responder][Chan].balance1 = a
                        /\ channels'[Responder][Chan].balance2 = 0
                        /\ channels'[Responder][Chan].serial = 0
          \/ ~establish_channel(Opener, Responder, Responder, a)]_vars

\* The channel was just opened with the whole wallet and the peer was told.
C22_Witness ==
    /\ arb.deployed
    /\ txCount = 1
    /\ wallet[Opener] = 0
    /\ Len(out) = 1
    /\ Known(channels, Responder, Chan)
    /\ ~channels[Responder][Chan].is_party1
    /\ channels[Opener][Chan].balance1 = InitialFunds

\* C23: close_channel sends nothing and leaves every other node's registry
\* as it is; a node's record of the channel gets closed, or goes, only in
\* that node's own close_channel, appeal_closed_chan or withdraw_funds.
C23_CloseDoesNotTouchThePeer ==
    [][/\ \A n \in Nodes :
             \/ /\ out' = <<>>
                /\ \A k \in Nodes \ {n} : channels'[k] = channels[k]
             \/ ~close_channel(n, Chan, NoState)
       /\ \A k \in Parties :
             \/ ~Known(channels, k, Chan)
             \/ /\ Known(channels', k, Chan)
                /\ channels'[k][Chan].closed = channels[k][Chan].closed
             \/ close_channel(k, Chan, NoState)
             \/ appeal_closed_chan(k, Chan)
             \/ withdraw_funds(k, Chan)]_vars

\* The opener's close went through after a transfer; the peer's record is
\* still open.
C23_Witness ==
    /\ ret = ReturnedBool(TRUE)
    /\ arb.channelClosed
    /\ elapsed = 0
    /\ arb.currentSerialNum > 0
    /\ channels[Opener][Chan].closed
    /\ Known(channels, Responder, Chan)
    /\ ~channels[Responder][Chan].closed

\* The local (balance1, balance2, serial) of a record, and the same of a
\* state message.
C24_Local(rec) == <<rec.balance1, rec.balance2, rec.serial>>
C24_Carried(m) == <<m.balance1, m.balance2, m.serial_number>>

\* C24: the bus not paused, both parties holding records that agree on
\* (balance1, balance2, serial), a send whose preconditions hold returns
\* after receive_funds at the peer and then ack_transfer at the sender: both
\* records agree again, and each node holds that very tuple signed by the
\* other.
C24_SendCompletesTheRoundTrip ==
    [][\A n \in Parties, p \in Parties, a \in Deposits :
          \/ p = n
          \/ paused
          \/ ~(Known(channels, n, Chan) /\ Known(channels, p, Chan))
          \/ C24_Local(channels[n][Chan]) # C24_Local(channels[p][Chan])
          \/ send_error(channels, n, Chan, a) # "none"
          \/ /\ ret' = Returned
             /\ Len(out') = 2
             /\ out'[1].kind = RECEIVE_FUNDS /\ out'[1].dst = p
             /\ out'[2].kind = ACK_TRANSFER /\ out'[2].dst = n
             /\ C24_Local(channels'[n][Chan]) = C24_Local(channels'[p][Chan])
             /\ channels'[n][Chan].serial = channels[n][Chan].serial + 1
             /\ \A k \in {n, p} :
                   /\ channels'[k][Chan].last_state.contract_address = Chan
                   /\ C24_Carried(channels'[k][Chan].last_state)
                         = C24_Local(channels'[k][Chan])
                   /\ validate_signature(channels'[k][Chan].last_state,
                                         IF k = n THEN p ELSE n)
          \/ ~send(n, Chan, a)]_vars

\* The responder's send back to the opener completed: serial 2 everywhere,
\* each side holding it signed by the other.
C24_Witness ==
    /\ Len(out) = 2
    /\ out[2].dst = Responder
    /\ \A k \in Parties : Known(channels, k, Chan)
    /\ C24_Local(channels[Opener][Chan]) = C24_Local(channels[Responder][Chan])
    /\ channels[Opener][Chan].serial = 2
    /\ channels[Opener][Chan].last_state.sig.signer = Responder
    /\ channels[Responder][Chan].last_state.sig.signer = Opener
    /\ C24_Carried(channels[Responder][Chan].last_state)
          = C24_Local(channels[Opener][Chan])

\* The balance a record gives the node's peer.
C25_PeerBalance(rec) == IF rec.is_party1 THEN rec.balance2 ELSE rec.balance1

\* C25: a send of a that passes its checks takes a from the sender's own
\* local balance, adds it to the peer's, and raises the serial by one,
\* delivered or not; with the bus paused the sender's held state and every
\* other node's registry stay as they were.
C25_SendMovesAmountAndBumpsSerial ==
    [][\A n \in Parties, a \in Deposits :
          \/ send_error(channels, n, Chan, a) # "none"
          \/ /\ ret' = Returned
             /\ OwnBalance(channels'[n][Chan])
                   = OwnBalance(channels[n][Chan]) - a
             /\ C25_PeerBalance(channels'[n][Chan])
                   = C25_PeerBalance(channels[n][Chan]) + a
             /\ channels'[n][Chan].serial = channels[n][Chan].serial + 1
             /\ channels'[n][Chan].closed = channels[n][Chan].closed
             /\ Len(out') >= 1
             /\ out'[1].kind = RECEIVE_FUNDS
             /\ paused =>
                   /\ channels'[n][Chan].last_state
                         = channels[n][Chan].last_state
                   /\ \A k \in Nodes \ {n} : channels'[k] = channels[k]
                   /\ Len(out') = 1
                   /\ ~out'[1].delivered
          \/ ~send(n, Chan, a)]_vars

\* Sent while the bus was paused: the opener's record moved on, it holds no
\* countersigned state, and the responder's record is the initial one.
C25_Witness ==
    /\ paused
    /\ Len(out) = 1
    /\ ~out[1].delivered
    /\ Known(channels, Opener, Chan) /\ Known(channels, Responder, Chan)
    /\ channels[Opener][Chan].serial = 1
    /\ channels[Opener][Chan].balance2 = sent[Opener]
    /\ sent[Opener] > 0
    /\ channels[Opener][Chan].last_state = NoState
    /\ channels[Responder][Chan].serial = 0
    /\ channels[Responder][Chan].balance2 = 0

\* receive_funds at node n takes m: the channel is known, m is signed by the
\* peer, its serial is above the local one and it does not lower the node's
\* own balance.
C26_Taken(n, m) ==
    /\ Known(channels, n, m.contract_address)
    /\ recover_message(m) = channels[n][m.contract_address].other_party
    /\ m.serial_number > channels[n][m.contract_address].serial
    /\ OwnBalanceIn(channels[n][m.contract_address], m)
          >= OwnBalance(channels[n][m.contract_address])

\* C26: a receive_funds that takes m sets the local balances and serial to
\* m's, holds m, and sends the peer exactly one acknowledgement: the same
\* (channel, balance1, balance2, serial), signed by the receiver.
C26_AcceptedReceiveStoresAndAcks ==
    injected < MaxInject =>
        \A n \in Nodes, m \in Crafted :
            C26_Taken(n, m) =>
                /\ receive_funds(World, n, m).exc = "none"
                /\ receive_funds(World, n, m).ch[n][Chan].balance1 = m.balance1
                /\ receive_funds(World, n, m).ch[n][Chan].balance2 = m.balance2
                /\ receive_funds(World, n, m).ch[n][Chan].serial
                      = m.serial_number
                /\ receive_funds(World, n, m).ch[n][Chan].last_state = m
                /\ Len(receive_funds(World, n, m).out) = 1
                /\ receive_funds(World, n, m).out[1].kind = ACK_TRANSFER
                /\ receive_funds(World, n, m).out[1].dst
                      = channels[n][Chan].other_ip
                /\ message_hash(receive_funds(World, n, m).out[1].payload.m)
                      = message_hash(m)
                /\ recover_message(
                       receive_funds(World, n, m).out[1].payload.m) = n

\* A message handed to the responder's receive_funds was taken: the responder
\* holds it, signed by the opener, and one acknowledgement signed by the
\* responder went out.
C26_Witness ==
    /\ injected > 0
    /\ Len(out) = 1
    /\ out[1].kind = ACK_TRANSFER
    /\ out[1].payload.m.sig.signer = Responder
    /\ Known(channels, Responder, Chan)
    /\ channels[Responder][Chan].last_state.sig.signer = Opener
    /\ message_hash(channels[Responder][Chan].last_state)
          = message_hash(out[1].payload.m)
    /\ channels[Responder][Chan].serial = out[1].payload.m.serial_number

\* ack_transfer at node n has to store m: the channel is known, m is signed
\* by the peer, its serial is not below the local one and it does not lower
\* the node's own balance.
C27_ToStore(n, m) ==
    /\ Known(channels, n, m.contract_address)
    /\ recover_message(m) = channels[n][m.contract_address].other_party
    /\ m.serial_number >= channels[n][m.contract_address].serial
    /\ OwnBalanceIn(channels[n][m.contract_address], m)
          >= OwnBalance(channels[n][m.contract_address])

\* C27: ack_transfer(m) makes m the held state exactly when the channel is
\* known, m is signed by the peer, its serial is at least the local one and
\* it does not lower the node's own balance; it never writes the balances,
\* the serial or the closed flag, and it sends nothing.
C27_AckStoresOnlyTheHeldState ==
    injected < MaxInject =>
        \A n \in Nodes, m \in Crafted :
            /\ ack_transfer(World, n, m).out = <<>>
            /\ ack_transfer(World, n, m).arb = arb
            /\ IF C27_ToStore(n, m)
               THEN ack_transfer(World, n, m).ch =
                      [channels EXCEPT ![n][m.contract_address].last_state = m]
               ELSE ack_transfer(World, n, m).ch = channels

\* An acknowledgement handed to the opener was stored although its serial is
\* above the opener's own, which stayed where it was.
C27_Witness ==
    /\ injected > 0
    /\ ret = Returned
    /\ out = <<>>
    /\ Known(channels, Opener, Chan)
    /\ channels[Opener][Chan].last_state.sig.signer = Responder
    /\ channels[Opener][Chan].last_state.serial_number
          > channels[Opener][Chan].serial
    /\ channels[Opener][Chan].balance1 + channels[Opener][Chan].balance2
          = channels[Opener][Chan].total_deposit

\* C28: notify_of_channel for a channel already in the node's registry
\* changes nothing, whatever the record holds and whatever network id the
\* call carries.
C28_NotifyOfKnownChannelIsNoOp ==
    [][\A n \in Parties, ip \in Nodes :
          \/ ~Known(channels, n, Chan)
          \/ /\ channels' = channels
             /\ out' = <<>>
             /\ ret' = Returned
             /\ arb' = arb
          \/ ~call_notify_of_channel(n, Chan, ip)]_vars

\* A second notification reached a node whose record has moved on (a held
\* state, closed) and the record still names the peer's network id.
C28_Witness ==
    /\ injected > 0
    /\ \E n \in Parties :
          /\ Known(channels, n, Chan)
          /\ channels[n][Chan].closed
          /\ channels[n][Chan].last_state # NoState
          /\ channels[n][Chan].serial > 0
          /\ channels[n][Chan].other_ip = channels[n][Chan].other_party

\* C29: whenever the state a node would close with is the initial one
\* (serial 0), the arguments close_channel passes to oneSidedClose are
\* (total_deposit, 0, 0, zero signature), sends not yet acknowledged
\* included.
C29_InitialCloseSubmitsTheDeposit ==
    \A n \in Parties :
        (/\ Known(channels, n, Chan)
         /\ current_state(channels[n][Chan], Chan).serial_number = 0)
        => close_args(channels[n][Chan],
                      current_state(channels[n][Chan], Chan))
             = ChannelStateMessage(Chan, channels[n][Chan].total_deposit,
                                   0, 0, ZeroSig)

\* C30: an appeal_closed_chan that finds the arbiter closed leaves the
\* node's record closed, whatever the call returns, and one that finds it
\* not closed leaves the registry as it is; a closed record stays closed
\* while it is in the registry, and send and close_channel raise on it.
C30_AppealProbeClosesTheRecord ==
    [][/\ \A n \in Parties :
             \/ ~Known(channels, n, Chan)
             \/ IF arb.channelClosed
                THEN /\ Known(channels', n, Chan)
                     /\ channels'[n][Chan].closed
                ELSE /\ channels' = channels
                     /\ ret' = ReturnedBool(FALSE)
             \/ ~appeal_closed_chan(n, Chan)
       /\ \A n \in Parties :
             \/ ~(Known(channels, n, Chan) /\ Known(channels', n, Chan))
             \/ ~channels[n][Chan].closed
             \/ /\ channels'[n][Chan].closed
                /\ close_error(channels', n, Chan) = "Channel already closed"
                /\ \A a \in Amounts : send_error(channels', n, Chan, a) # "none"
                /\ \A a \in Deposits :
                      send_error(channels', n, Chan, a) = "Channel is closed"]_vars

\* Both parties' records are closed, so one of them by an appeal probe (the
\* arbiter takes one close only), and a send on a closed record was refused.
C30_Witness ==
    /\ arb.channelClosed
    /\ \A n \in Parties :
          Known(channels, n, Chan) /\ channels[n][Chan].closed
    /\ txCount = 2
    /\ ret = Raised("Channel is closed")

\* C31: a record whose closed flag is set keeps its balances, serial and held
\* state in every step (send, receive_funds and ack_transfer included), and
\* leaves the registry only in this node's withdraw_funds.
C31_ClosedRecordIsFrozen ==
    [][\A n \in Parties :
          \/ ~Known(channels, n, Chan)
          \/ ~channels[n][Chan].closed
          \/ /\ Known(channels', n, Chan)
             /\ channels'[n][Chan] = channels[n][Chan]
          \/ /\ ~Known(channels', n, Chan)
             /\ withdraw_funds(n, Chan)]_vars

\* C32 as stated: a record leaves the registry only when its closed flag is
\* set, that is after this node's close_channel or an appeal_closed_chan
\* that saw the closure.
C32_RemovedOnlyWhenLocallyClosed ==
    [][\A n \in Parties :
          \/ ~Known(channels, n, Chan)
          \/ Known(channels', n, Chan)
          \/ channels[n][Chan].closed]_vars

\* C32, amended: a record leaves the registry only in this node's
\* withdraw_funds, and only when the arbiter is closed and its appeal window
\* is over; the record's own closed flag plays no part.
C32_RemovedOnlyAfterOnChainWindow ==
    [][\A n \in Parties :
          \/ ~Known(channels, n, Chan)
          \/ Known(channels', n, Chan)
          \/ /\ arb.channelClosed
             /\ elapsed >= APPEAL_PERIOD
             /\ ret'.exc = "none"
             /\ withdraw_funds(n, Chan)]_vars

\* The responder withdrew what the opener's close gave it, and without a
\* transaction of its own before: deploy, close, withdrawal.
C32_Witness ==
    /\ arb.channelClosed
    /\ elapsed >= APPEAL_PERIOD
    /\ ~Known(channels, Responder, Chan)
    /\ arb.paid2
    /\ arb.balance2 > 0
    /\ Known(channels, Opener, Chan)
    /\ channels[Opener][Chan].closed
    /\ txCount = 3
    /\ ret = ReturnedInt(arb.balance2)

\* C33: a record leaves the registry only when the node's withdrawal went
\* through: the arbiter had nothing for it, or it has paid the node out.  A
\* withdrawFunds transaction that fails leaves the record where it is and
\* the call raises.
C33_RemovedOnlyAfterSuccessfulWithdraw ==
    [][\A n \in Parties :
          \/ ~Known(channels, n, Chan)
          \/ Known(channels', n, Chan)
          \/ getBalance(arb, n) = 0
          \/ /\ arb' = Paid(arb, n)
             /\ wallet'[n] = wallet[n] + getBalance(arb, n)]_vars

\* C34: while the transport is paused a send_message returns false and runs
\* no handler: the call makes one bus call, no node other than the caller
\* changes its registry, and stop and resume deliver nothing, so a dropped
\* message is not delivered later either.  While the transport is live a
\* message to a registered node returns true with the handler's work done:
\* the notification has stored the record, an acceptable transfer has been
\* stored and acknowledged.
C34_PausedBusDropsLiveBusDelivers ==
    [][/\ paused' # paused =>
             /\ channels' = channels
             /\ out' = <<>>
       /\ (paused /\ out' # <<>>) =>
             /\ Len(out') = 1
             /\ ~out'[1].delivered
             /\ channels'[out'[1].dst] = channels[out'[1].dst]
             /\ \A k, j \in Nodes :
                   (channels'[k] # channels[k] /\ channels'[j] # channels[j])
                      => k = j
       /\ (~paused /\ out' # <<>>) =>
             /\ out'[1].dst \in NetworkNodes
             /\ out'[1].delivered
             /\ out'[1].kind = NOTIFY_OF_CHANNEL =>
                   Known(channels', out'[1].dst, out'[1].payload.addr)
             /\ (/\ out'[1].kind = RECEIVE_FUNDS
                 /\ C26_Taken(out'[1].dst, out'[1].payload.m)) =>
                   /\ channels'[out'[1].dst][Chan].last_state
                         = out'[1].payload.m
                   /\ Len(out') = 2
                   /\ out'[2].kind = ACK_TRANSFER
                   /\ out'[2].delivered]_vars

\* The opener's notification was dropped during a pause and the transport
\* is live again: the responder still does not know the channel.
C34_Witness ==
    /\ ~paused
    /\ arb.deployed
    /\ Known(channels, Opener, Chan)
    /\ ~Known(channels, Responder, Chan)
    /\ ret = Returned
    /\ out = <<>>

\* The state close_channel hands to oneSidedClose for the argument m.
C35_Args(n, m) ==
    close_args(channels[n][Chan],
               IF m = NoState THEN current_state(channels[n][Chan], Chan)
               ELSE m)

\* What the claim asks of a close by n with the tuple x: the arbiter still
\* open, balances summing to the deposit, and the tuple either the unsigned
\* initial state or signed, over these very numbers, by n's counterparty.
C35_Acceptable(n, x) ==
    /\ ~arb.channelClosed
    /\ x.balance1 + x.balance2 = arb.totalDeposit
    /\ \/ x.serial_number = 0 /\ x.sig = ZeroSig
       \/ /\ x.sig.signer = channels[n][Chan].other_party
          /\ x.sig.h = message_hash([x EXCEPT !.contract_address = Chan])

\* C35: oneSidedClose is accepted only while the channel is not closed, with
\* balances summing to the deposit, and with the counterparty's signature
\* (or as the unsigned serial-0 state).  Any other close (unsigned with a
\* serial above 0, signed by a third party or by the caller, a wrong sum, a
\* close after a close) is rejected and leaves the arbiter as it was.
C35_OneSidedCloseAcceptance ==
    [][\A n \in Parties : \A m \in CloseAttempts(n) :
          \/ close_error(channels, n, Chan) # "none"
          \/ IF C35_Acceptable(n, C35_Args(n, m))
             THEN /\ arb'.channelClosed
                  /\ arb'.balance1 = C35_Args(n, m).balance1
                  /\ arb'.balance2 = C35_Args(n, m).balance2
                  /\ arb'.currentSerialNum = C35_Args(n, m).serial_number
                  /\ ret' = ReturnedBool(TRUE)
             ELSE /\ arb' = arb
                  /\ ret' = Raised("revert")
          \/ ~close_channel(n, Chan, m)]_vars

\* A close was rejected because the channel had been closed before, with a
\* signed state.
C35_Witness ==
    /\ arb.channelClosed
    /\ arb.currentSerialNum > 0
    /\ ret = Raised("revert")
    /\ \E n \in Parties :
          Known(channels, n, Chan) /\ ~channels[n][Chan].closed

\* What the claim asks of an appeal by n with the tuple x: the window open,
\* a serial above the recorded one, balances summing to the deposit, and
\* the counterparty's signature over these very numbers.
C36_Acceptable(n, x) ==
    /\ arb.channelClosed
    /\ elapsed < APPEAL_PERIOD
    /\ x.serial_number > arb.currentSerialNum
    /\ x.balance1 + x.balance2 = arb.totalDeposit
    /\ x.sig.signer = channels[n][Chan].other_party
    /\ x.sig.h = message_hash([x EXCEPT !.contract_address = Chan])

\* C36: appealClosure is accepted only within the appeal window and only
\* with a serial strictly above currentSerialNum, the counterparty's
\* signature and the right balance sum; an appeal with the same or a lower
\* serial, or after the window, is rejected and leaves the arbiter's record
\* as it was; currentSerialNum never decreases.
C36_AppealAcceptance ==
    [][/\ arb'.currentSerialNum >= arb.currentSerialNum
       /\ (/\ arb.channelClosed
           /\ <<arb'.balance1, arb'.balance2, arb'.currentSerialNum>>
                 # <<arb.balance1, arb.balance2, arb.currentSerialNum>>) =>
             /\ elapsed < APPEAL_PERIOD
             /\ arb'.currentSerialNum > arb.currentSerialNum
             /\ arb'.balance1 + arb'.balance2 = arb.totalDeposit
       /\ \A n \in Parties : \A x \in AppealAttempts(n) :
             \/ ~arb.deployed
             \/ IF C36_Acceptable(n, x)
                THEN /\ arb'.balance1 = x.balance1
                     /\ arb'.balance2 = x.balance2
                     /\ arb'.currentSerialNum = x.serial_number
                     /\ ret' = Returned
                ELSE /\ arb' = arb
                     /\ ret' = Raised("revert")
             \/ ~transact_appealClosure(n, x)]_vars

\* Both parties have closed or appealed, and inside the window an appeal
\* sent straight to the arbiter was rejected: its serial was not above the
\* recorded one.
C36_Witness ==
    /\ arb.channelClosed
    /\ elapsed < APPEAL_PERIOD
    /\ arb.currentSerialNum > 0
    /\ ret = Raised("revert")
    /\ \A n \in Parties :
          /\ Known(channels, n, Chan)
          /\ channels[n][Chan].closed
          /\ channels[n][Chan].serial <= arb.currentSerialNum

\* C37: the serial of a record never goes down.  A send that succeeds adds
\* exactly 1 to the sender's; a receive_funds that is accepted sets the
\* receiver's to the message's, which is above it; the acknowledgement, a
\* close, an appeal and every call that is rejected leave it as it was.
C37_LocalSerialMonotone ==
    [][\A n \in Parties :
          \/ ~Known(channels, n, Chan)
          \/ ~Known(channels', n, Chan)
          \/ /\ channels'[n][Chan].serial >= channels[n][Chan].serial
             /\ (txCount' # txCount \/ ret'.exc # "none" \/ out' = <<>>) =>
                   channels'[n][Chan].serial = channels[n][Chan].serial
             /\ (out' # <<>> /\ out'[1].kind = RECEIVE_FUNDS) =>
                   IF out'[1].dst # n
                   THEN channels'[n][Chan].serial
                           = channels[n][Chan].serial + 1
                   ELSE IF /\ out'[1].delivered
                           /\ C26_Taken(n, out'[1].payload.m)
                   THEN /\ channels'[n][Chan].serial
                              = out'[1].payload.m.serial_number
                        /\ channels'[n][Chan].serial
                              > channels[n][Chan].serial
                   ELSE channels'[n][Chan].serial
                           = channels[n][Chan].serial]_vars

\* A transfer was delivered and turned down: the receiver's serial, not
\* below the message's, stays, and the sender's is the message's.  The
\* channel is closed on the ledger by then.
C37_Witness ==
    /\ Len(out) = 1
    /\ out[1].kind = RECEIVE_FUNDS
    /\ out[1].delivered
    /\ arb.channelClosed
    /\ \A n \in Parties : Known(channels, n, Chan)
    /\ channels[out[1].dst][Chan].serial >= out[1].payload.m.serial_number
    /\ \E n \in Parties \ {out[1].dst} :
          channels[n][Chan].serial = out[1].payload.m.serial_number

\* The peer p of n is where the two last agreed: its record carries the
\* tuple of the state n holds countersigned, or is the initial one when n
\* holds none.  A send of its own would have moved it on.
C38_PeerStayed(n, p) ==
    IF channels[n][Chan].last_state = NoState
    THEN /\ channels[p][Chan].serial = 0
         /\ channels[p][Chan].last_state = NoState
    ELSE C24_Local(channels[p][Chan])
            = C24_Carried(channels[n][Chan].last_state)

\* C38: transfers of n were dropped while the bus was paused and its peer
\* has sent nothing since.  The next transfer n makes on the live bus,
\* with the cumulative balances and a serial more than one above the
\* peer's, is accepted and acknowledged, and afterwards both records carry
\* the same (balance1, balance2, serial) and each node holds that tuple
\* signed by the other.
C38_NextSendAfterLossResynchronises ==
    [][\A n \in Parties, p \in Parties, a \in Deposits :
          \/ paused
          \/ p = n
          \/ send_error(channels, n, Chan, a) # "none"
          \/ ~Known(channels, p, Chan)
          \/ lost[n] = 0
          \/ channels[n][Chan].serial <= channels[p][Chan].serial
          \/ ~C38_PeerStayed(n, p)
          \/ /\ ret' = Returned
             /\ Len(out') = 2
             /\ out'[1].kind = RECEIVE_FUNDS /\ out'[1].delivered
             /\ out'[2].kind = ACK_TRANSFER /\ out'[2].delivered
             /\ channels'[n][Chan].serial = channels[n][Chan].serial + 1
             /\ channels'[n][Chan].serial > channels[p][Chan].serial + 1
             /\ C24_Local(channels'[p][Chan]) = C24_Local(channels'[n][Chan])
             /\ channels'[n][Chan].last_state # NoState
             /\ channels'[p][Chan].last_state # NoState
             /\ C24_Carried(channels'[n][Chan].last_state)
                   = C24_Local(channels'[n][Chan])
             /\ C24_Carried(channels'[p][Chan].last_state)
                   = C24_Local(channels'[p][Chan])
             /\ recover_message(channels'[n][Chan].last_state) = p
             /\ recover_message(channels'[p][Chan].last_state) = n
          \/ ~send(n, Chan, a)]_vars

\* The opener's first transfer was dropped, its second one got through:
\* the responder went from serial 0 to serial 2 and the records agree.
C38_Witness ==
    /\ ~paused
    /\ lost[Opener] = 1
    /\ lost[Responder] = 0
    /\ Len(out) = 2
    /\ out[1].dst = Responder
    /\ out[1].delivered
    /\ channels[Opener][Chan].serial = 2
    /\ C24_Local(channels[Responder][Chan]) = C24_Local(channels[Opener][Chan])
    /\ C24_Carried(channels[Opener][Chan].last_state)
          = C24_Local(channels[Opener][Chan])
    /\ C24_Carried(channels[Responder][Chan].last_state)
          = C24_Local(channels[Opener][Chan])

====
